---- MODULE Spec2Model ----
(***************************************************************************)
(* Booking-and-payment orchestration: the tRPC booking procedures          *)
(* (createBooking, confirmBooking, cancelBooking), the Stripe webhook      *)
(* handler and the persistence functions they call.  Every request is one  *)
(* asynchronous handler; each await on the store or on a provider is one   *)
(* atomic step, and steps of different requests interleave freely.         *)
(* The availability procedure (getAvailability) and the Cal.com            *)
(* availability service it calls are modelled beside them, and so is the   *)
(* resolution of a practitioner's Cal.com event type from the environment. *)
(***************************************************************************)
EXTENDS Integers, FiniteSets, Sequences, TLC

\* ------------------------------------------------------------------ bounds
\* Number of requests (of any kind) that arrive in one behaviour.
MaxRequests == 3
\* Number of requests being handled at the same time.
MaxInFlight == 2

Requests == 1..MaxRequests
BookingIds == 1..MaxRequests
SessionIds == 1..MaxRequests

\* ------------------------------------------------------- values and tables
\* null / undefined of a nullable column or of a lookup that found nothing
NULL == 0
\* the empty string "" written by createBooking as payment-intent reference
EMPTY == 0 - 1

\* two of the seeded practitioners and their hourly rate in pence
MockPractitioners ==
  [id \in {1, 2} |-> [id |-> id, hourlyRate |-> IF id = 1 THEN 8000 ELSE 7500]]

\* the rate a practitioner's row is later edited to
RaisedRate == 9000

\* a practitioner id that is in no table
UnknownPractitioner == 99999

\* booking instants a client may ask for
Times == {1, 2}

\* client identities: name, e-mail and phone of a request come together
Clients == {1}

\* the body of a createBooking request: texts are sequences of characters, and
\* bookingTime is a string in some format that denotes an instant
Datetime(t) == [format |-> "ISO-8601", instant |-> t]

WellFormedInput(practitionerId, c, t) ==
  [practitionerId |-> practitionerId, client |-> c,
   clientName |-> <<"A", "n", "n">>,
   clientEmail |-> <<"a", "@", "b">>,
   clientPhone |-> <<"0", "7">>,
   bookingTime |-> Datetime(t)]

NoInput ==
  [practitionerId |-> NULL, client |-> NULL, clientName |-> <<>>, clientEmail |-> <<>>,
   clientPhone |-> <<>>, bookingTime |-> [format |-> "", instant |-> NULL]]

\* bodies that each break one rule of the input schema
MalformedInputs ==
  LET ok == WellFormedInput(1, 1, 2)
  IN {[ok EXCEPT !.clientName = <<>>],
      [ok EXCEPT !.clientEmail = <<"a", "b">>],
      [ok EXCEPT !.clientPhone = <<>>],
      [ok EXCEPT !.bookingTime = [format |-> "dd/mm/yyyy", instant |-> 2]]}

\* the signing secret the provider uses for this endpoint, and another key
ProviderSecret == "whsec_provider"
AttackerSecret == "whsec_attacker"

\* a reference the provider never issued
AttackerRef == MaxRequests + 1

\* a checkout session of the same provider account that createBooking did not open
OtherSession == MaxRequests + 2

Completed == "checkout.session.completed"
Expired == "checkout.session.expired"

NoBody ==
  [type |-> "", payment_status |-> "", bookingId |-> NULL, sessionId |-> NULL,
   payment_intent |-> NULL]

NoSignature == [present |-> FALSE, signed |-> NoBody, key |-> ""]

Sign(body, key) == [present |-> TRUE, signed |-> body, key |-> key]

\* a process environment in which no variable is set; the booking and
\* availability specifications do not read env (the API key and the outcome of
\* their provider calls are chosen at each call)
NoEnv == [n \in {} |-> ""]

\* no row of the bookings table
NoRow ==
  [id |-> NULL, practitionerId |-> NULL,
   clientName |-> NULL, clientEmail |-> NULL, clientPhone |-> NULL,
   bookingTime |-> NULL, status |-> "",
   stripeSessionId |-> NULL, stripePaymentIntentId |-> NULL,
   amount |-> 0, createdAt |-> 0, updatedAt |-> 0]

VARIABLES
  bookings,       \* the bookings table: id -> row
  sessions,       \* checkout sessions held by the payment provider: id -> session
  procs,          \* the requests: slot -> handler state (kind, pc, locals, result)
  calAttempts,    \* bookingId -> number of createCalComBooking calls made for it
  webhookSecret,  \* process.env.STRIPE_WEBHOOK_SECRET ("" when not configured)
  practitioners,  \* the practitioners table: id -> row
  queries,        \* the getAvailability requests: run -> handler state and result
  clock,          \* the instant new Date() yields, in hours since a Monday 00:00
  calendar,       \* the busy intervals the scheduling provider holds
  env,            \* process.env as the event-type resolution reads it: name -> value
  calComLog       \* the calls of the two Cal.com functions under env, in order

vars == <<bookings, sessions, procs, calAttempts, webhookSecret, practitioners, queries, clock, calendar, env, calComLog>>

IdleProc ==
  [kind |-> "idle", pc |-> "idle",
   input |-> NoInput,
   practitionerId |-> NULL, client |-> NULL, bookingTime |-> NULL,
   hourlyRate |-> 0, bookingId |-> NULL, sessionId |-> NULL,
   body |-> NoBody, signature |-> NoSignature,
   error |-> "", httpStatus |-> 0, returned |-> "", calendar |-> "",
   idsAtStart |-> {}, activeAtStart |-> FALSE, statusAtStart |-> "",
   row |-> NoRow, arg |-> NULL]

\* ------------------------------------------------------ persistence (db.ts)
\* a look-up that answers with the first row when the id matches none
GetPractitioner_FirstRow(id) ==
  IF id \in DOMAIN practitioners THEN practitioners[id] ELSE practitioners[1]

GetPractitioner(id) ==
  IF id \in DOMAIN practitioners THEN practitioners[id] ELSE [id |-> NULL, hourlyRate |-> 0]

\* the rows a conflict query matches
ConflictRows(bk, practitionerId, bookingTime) ==
  {b \in DOMAIN bk : /\ bk[b].practitionerId = practitionerId
                     /\ bk[b].bookingTime = bookingTime}

\* a conflict query that forgets the practitioner
CheckBookingConflict_TimeOnly(bk, practitionerId, bookingTime) ==
  LET rows == {b \in DOMAIN bk : bk[b].bookingTime = bookingTime}
  IN IF rows = {} THEN NULL ELSE CHOOSE b \in rows : \A c \in rows : b <= c

\* a conflict query that skips the rows no checkout session was attached to
CheckBookingConflict_WithSession(bk, practitionerId, bookingTime) ==
  LET rows == {b \in ConflictRows(bk, practitionerId, bookingTime) :
                 bk[b].stripeSessionId # NULL}
  IN IF rows = {} THEN NULL ELSE CHOOSE b \in rows : \A c \in rows : b <= c

CheckBookingConflict(bk, practitionerId, bookingTime) ==
  LET rows == ConflictRows(bk, practitionerId, bookingTime)
  IN IF rows = {} THEN NULL ELSE CHOOSE b \in rows : \A c \in rows : b <= c

\* gen_random_uuid(): an id not in the table; ids are opaque, the least unused
\* one stands for any fresh one
NewBookingId(bk) == CHOOSE b \in BookingIds \ DOMAIN bk : \A c \in BookingIds \ DOMAIN bk : b <= c

\* NOW() as the store sees it for one row: a time later than the row's last write
\* (the number of writes to the row stands for it)
Now(bk, id) == IF id \in DOMAIN bk THEN bk[id].updatedAt + 1 ELSE 1

\* an insert that leaves the new row alone in the table
CreateBooking_Replace(bk, id, draft) ==
  [b \in {id} |->
     [id |-> id,
      practitionerId |-> draft.practitionerId,
      clientName |-> draft.client,
      clientEmail |-> draft.client,
      clientPhone |-> draft.client,
      bookingTime |-> draft.bookingTime,
      status |-> "pending",
      stripeSessionId |-> NULL,
      stripePaymentIntentId |-> NULL,
      amount |-> draft.amount,
      createdAt |-> Now(bk, id),
      updatedAt |-> Now(bk, id)]]

CreateBooking(bk, id, draft) ==
  [b \in DOMAIN bk \cup {id} |->
     IF b = id
       THEN [id |-> id,
             practitionerId |-> draft.practitionerId,
             clientName |-> draft.client,
             clientEmail |-> draft.client,
             clientPhone |-> draft.client,
             bookingTime |-> draft.bookingTime,
             status |-> "pending",
             stripeSessionId |-> NULL,
             stripePaymentIntentId |-> NULL,
             amount |-> draft.amount,
             createdAt |-> Now(bk, id),
             updatedAt |-> Now(bk, id)]
       ELSE bk[b]]

\* a lookup that falls back to some row when the id matches none
GetBooking_Any(bk, id) ==
  IF id \in DOMAIN bk THEN id
  ELSE IF DOMAIN bk = {} THEN NULL
  ELSE CHOOSE b \in DOMAIN bk : \A c \in DOMAIN bk : b <= c

GetBooking(bk, id) == IF id \in DOMAIN bk THEN id ELSE NULL

\* an update that stamps the row and leaves its status as it was
UpdateBookingStatus_StampOnly(bk, id, status) ==
  [b \in DOMAIN bk |->
     IF b = id THEN [bk[b] EXCEPT !.updatedAt = Now(bk, id)] ELSE bk[b]]

\* an update that accumulates: a row already in the wanted status is given its
\* creation time as amount, and a missing row is added
UpdateBookingStatus_Accumulating(bk, id, status) ==
  [b \in DOMAIN bk \cup {id} |->
     IF b # id THEN bk[b]
     ELSE IF id \notin DOMAIN bk
       THEN [NoRow EXCEPT !.id = id, !.status = status, !.updatedAt = Now(bk, id)]
     ELSE IF bk[b].status = status
       THEN [bk[b] EXCEPT !.amount = bk[b].amount + 1, !.updatedAt = Now(bk, id)]
       ELSE [bk[b] EXCEPT !.status = status, !.updatedAt = Now(bk, id)]]

UpdateBookingStatus(bk, id, status) ==
  [b \in DOMAIN bk |->
     IF b = id THEN [bk[b] EXCEPT !.status = status, !.updatedAt = Now(bk, id)] ELSE bk[b]]

\* an update that also copies the practitioner's current rate into the row
UpdateBookingWithStripeData_Reprice(bk, id, stripeSessionId, stripePaymentIntentId) ==
  [b \in DOMAIN bk |->
     IF b = id
       THEN [bk[b] EXCEPT !.stripeSessionId = stripeSessionId,
                          !.stripePaymentIntentId = stripePaymentIntentId,
                          !.amount = GetPractitioner(bk[b].practitionerId).hourlyRate,
                          !.updatedAt = Now(bk, id)]
       ELSE bk[b]]

UpdateBookingWithStripeData(bk, id, stripeSessionId, stripePaymentIntentId) ==
  [b \in DOMAIN bk |->
     IF b = id
       THEN [bk[b] EXCEPT !.stripeSessionId = stripeSessionId,
                          !.stripePaymentIntentId = stripePaymentIntentId,
                          !.updatedAt = Now(bk, id)]
       ELSE bk[b]]

\* the rows a lookup by checkout session matches (limit 1 returns one of them)
BookingsByStripeSessionId(bk, sessionId) ==
  {b \in DOMAIN bk : bk[b].stripeSessionId = sessionId}

\* ------------------------------------------------- payment adapter (stripe)
NewSessionId(ss) == CHOOSE s \in SessionIds \ DOMAIN ss : \A c \in SessionIds \ DOMAIN ss : s <= c

\* a session opened without the booking in its metadata
CreateCheckoutSession_NoMetadata(ss, id, amount, bookingId) ==
  [s \in DOMAIN ss \cup {id} |->
     IF s = id
       THEN [id |-> id, url |-> id, amount |-> amount, bookingId |-> NULL,
             payment_status |-> "unpaid", payment_intent |-> NULL]
       ELSE ss[s]]

CreateCheckoutSession(ss, id, amount, bookingId) ==
  [s \in DOMAIN ss \cup {id} |->
     IF s = id
       THEN [id |-> id, url |-> id, amount |-> amount, bookingId |-> bookingId,
             payment_status |-> "unpaid", payment_intent |-> NULL]
       ELSE ss[s]]

\* stripe.webhooks.constructEvent: the signature must have been computed over
\* exactly this raw body with the endpoint's secret
\* a verification that checks the key and not the body signed
ValidateWebhookSignature_KeyOnly(payload, signature, secret) ==
  signature.key = secret

ValidateWebhookSignature(payload, signature, secret) ==
  /\ signature.key = secret
  /\ signature.signed = payload

NoConfirmation == [bookingId |-> NULL, sessionId |-> NULL]

\* a processing that takes every completed checkout for a paid one
ProcessWebhookEvent_AnyCompleted(event) ==
  IF /\ event.type = Completed
     /\ event.bookingId # NULL
    THEN [bookingId |-> event.bookingId, sessionId |-> event.sessionId]
    ELSE NoConfirmation

ProcessWebhookEvent(event) ==
  IF /\ event.type = Completed
     /\ event.payment_status = "paid"
     /\ event.bookingId # NULL
    THEN [bookingId |-> event.bookingId, sessionId |-> event.sessionId]
    ELSE NoConfirmation

\* ------------------------------------------- availability service (Cal.com)
\* Dates are whole hours counted from 00:00 local time of a Monday; a Date
\* built from something that is not a date is the Invalid Date, and every
\* comparison with it is false
InvalidDate == 0 - 1

DateLt(a, b) == a # InvalidDate /\ b # InvalidDate /\ a < b
DateLe(a, b) == a # InvalidDate /\ b # InvalidDate /\ a <= b

\* Date.getDay(): 0 is Sunday, 6 is Saturday
\* a getDay that numbers the week from Monday
GetDay_FromMonday(date) == (date \div 24) % 7

GetDay(date) == ((date \div 24) + 1) % 7

\* setDate(getDate() + 1); setHours(0, 0, 0, 0)
StartOfNextDay(now) == ((now \div 24) + 1) * 24

GridDays == 14
HoursOfDay == <<9, 11, 13, 15, 17>>

\* the five slots generateTimeSlots makes on one day
DaySlots(date) ==
  IF GetDay(date) \in {0, 6}
    THEN <<>>
    ELSE [k \in DOMAIN HoursOfDay |->
            [id |-> <<date + HoursOfDay[k]>>,
             startTime |-> date + HoursOfDay[k],
             endTime |-> date + HoursOfDay[k] + 1,
             available |-> TRUE]]

RECURSIVE GenerateTimeSlots(_, _)
GenerateTimeSlots(currentDate, endDate) ==
  IF currentDate < endDate
    THEN DaySlots(currentDate) \o GenerateTimeSlots(currentDate + 24, endDate)
    ELSE <<>>

IsSlotBusy(slot, busySlots) ==
  \E k \in DOMAIN busySlots :
    LET busy == busySlots[k]
    IN \/ DateLe(busy.start, slot.startTime) /\ DateLt(slot.startTime, busy.end)
       \/ DateLt(busy.start, slot.endTime) /\ DateLe(slot.endTime, busy.end)
       \/ DateLe(slot.startTime, busy.start) /\ DateLe(busy.end, slot.endTime)

\* Math.random() > 0.3, once per slot: the sequences of draws considered are
\* the one that is never above 0.3 and the one that is above it every other time
RandomDraws == {"none", "alternate"}
Draw(draws, n) == draws = "alternate" /\ n % 2 = 1

\* the slots getMockAvailability makes from day on, n being the number of
\* draws already made
RECURSIVE MockSlots(_, _, _, _, _)
MockSlots(practitionerId, startDate, day, n, draws) ==
  IF day >= GridDays
    THEN <<>>
    ELSE LET date == startDate + (24 * day)
         IN IF GetDay(date) \in {0, 6}
              THEN MockSlots(practitionerId, startDate, day + 1, n, draws)
              ELSE [k \in DOMAIN HoursOfDay |->
                      [id |-> <<practitionerId, day, HoursOfDay[k]>>,
                       startTime |-> date + HoursOfDay[k],
                       endTime |-> date + HoursOfDay[k] + 1,
                       available |-> Draw(draws, n + k)]]
                   \o MockSlots(practitionerId, startDate, day + 1,
                                n + Len(HoursOfDay), draws)

GetMockAvailability(practitionerId, now, draws) ==
  MockSlots(practitionerId, StartOfNextDay(now), 0, 0, draws)

\* what the GET on /availability can do: time out, answer with a status that
\* is not 2xx, answer 200 with a body that has no busy array, or answer 200
\* with the busy intervals the provider holds
ProviderFailures == {"timeout", "status", "nobusy"}
ProviderResponses == ProviderFailures \cup {"busy"}

CalComApiKeys == {"", "cal_live_key"}

\* allSlots.map(slot => ({...slot, available: !isSlotBusy(slot, busySlots)}))
MarkBusy(allSlots, busySlots) ==
  [k \in DOMAIN allSlots |->
     [allSlots[k] EXCEPT !.available = ~IsSlotBusy(allSlots[k], busySlots)]]

\* the result of the service and, beside it, which branch produced it and how
\* many calls to the provider were made
GetCalComAvailability(practitionerId, now, apiKey, response, busy, draws) ==
  IF apiKey = ""
    THEN [source |-> "placeholder", providerCalls |-> 0,
          slots |-> GetMockAvailability(practitionerId, now, draws)]
    ELSE IF response \in ProviderFailures
      THEN [source |-> "placeholder", providerCalls |-> 1,
            slots |-> GetMockAvailability(practitionerId, now, draws)]
      ELSE LET startDate == StartOfNextDay(now)
               endDate == startDate + (24 * GridDays)
           IN [source |-> "provider", providerCalls |-> 1,
               slots |-> MarkBusy(GenerateTimeSlots(startDate, endDate), busy)]

GetAvailabilityForPractitioner(practitionerId, now, apiKey, response, busy, draws) ==
  GetCalComAvailability(practitionerId, now, apiKey, response, busy, draws)

\* ---------------------------------------------- getAvailability requests
Runs == {1, 2}

IdleQuery ==
  [pc |-> "idle", practitionerId |-> NULL, practitioner |-> NULL,
   apiKey |-> "", response |-> "", draws |-> "",
   source |-> "", providerCalls |-> 0,
   slots |-> <<>>, returned |-> <<>>, error |-> ""]

\* ------------------------------------------------------------------- Init
Init ==
  /\ bookings = [b \in {} |-> NULL]
  /\ sessions = [s \in {} |-> NULL]
  /\ procs = [i \in Requests |-> IdleProc]
  /\ calAttempts = [b \in BookingIds |-> 0]
  /\ webhookSecret \in {ProviderSecret, ""}
  /\ practitioners = MockPractitioners
  /\ queries = [r \in Runs |-> IdleQuery]
  /\ clock = 0
  /\ calendar = <<>>
  /\ env = NoEnv
  /\ calComLog = <<>>

\* requests are numbered in order of arrival
InFlight == {i \in Requests : procs[i].kind # "idle" /\ procs[i].pc # "done"}

Arrived == Cardinality({i \in Requests : procs[i].kind # "idle"})
             + Cardinality({r \in Runs : queries[r].pc # "idle"})

CanStart(i) ==
  /\ procs[i].kind = "idle"
  /\ Arrived < MaxRequests
  /\ Cardinality(InFlight) < MaxInFlight
  /\ \A j \in Requests : j < i => procs[j].kind # "idle"

At(i, kind, pc) == procs[i].kind = kind /\ procs[i].pc = pc

Set(i, p) == procs' = [procs EXCEPT ![i] = p]

\* a handler that swallows the error and ends as if nothing had happened
Fail_Swallowed(p, msg) == [p EXCEPT !.pc = "done"]

Fail(p, msg) == [p EXCEPT !.pc = "done", !.error = msg]

\* --------------------------------------------- bookings.createBooking (router)
\* the error of a store call that rejects (no connection, failed query)
StorageError == "Database not available"

NotFound == "Practitioner not found"
SlotTaken == "This time slot is already booked. Please select another time."

\* is there a pending or confirmed booking for the slot
ActiveBookingFor(bk, practitionerId, bookingTime) ==
  \E b \in DOMAIN bk : /\ bk[b].practitionerId = practitionerId
                       /\ bk[b].bookingTime = bookingTime
                       /\ bk[b].status # "cancelled"

\* z.string().email(): something before and something after an "@"
IsEmail(s) == \E k \in 2..(Len(s) - 1) : s[k] = "@"

\* the zod schema of createBooking's input
InputSchema(input) ==
  /\ Len(input.clientName) >= 1
  /\ IsEmail(input.clientEmail)
  /\ Len(input.clientPhone) >= 1
  /\ input.bookingTime.format = "ISO-8601"

BadRequest == "BAD_REQUEST"

CreateBookingInputs ==
  {WellFormedInput(pid, c, t) :
     pid \in DOMAIN practitioners \cup {UnknownPractitioner}, c \in Clients, t \in Times}
    \cup MalformedInputs

\* the request arrives: the input is parsed against the schema; then
\* await getPractitioner
CreateBookingStart(i) ==
  /\ CanStart(i)
  /\ \E input \in CreateBookingInputs :
       LET practitioner == GetPractitioner(input.practitionerId)
           bookingTime == input.bookingTime.instant
           p == [IdleProc EXCEPT !.kind = "createBooking",
                                 !.input = input,
                                 !.practitionerId = input.practitionerId,
                                 !.client = input.client,
                                 !.bookingTime = bookingTime,
                                 !.hourlyRate = practitioner.hourlyRate,
                                 !.idsAtStart = DOMAIN bookings,
                                 !.activeAtStart =
                                    ActiveBookingFor(bookings, input.practitionerId, bookingTime)]
       IN IF ~InputSchema(input)
            THEN Set(i, Fail([IdleProc EXCEPT !.kind = "createBooking", !.input = input],
                             BadRequest))
          ELSE IF practitioner.id = NULL
            THEN Set(i, Fail(p, NotFound))
            ELSE Set(i, [p EXCEPT !.pc = "checkBookingConflict"])
  /\ UNCHANGED <<bookings, sessions, calAttempts, webhookSecret, practitioners, queries, clock, calendar, env, calComLog>>

\* await checkBookingConflict
CreateBookingCheck(i) ==
  /\ At(i, "createBooking", "checkBookingConflict")
  /\ LET p == procs[i]
         existingBooking == CheckBookingConflict(bookings, p.practitionerId, p.bookingTime)
     IN IF existingBooking # NULL
          THEN Set(i, Fail(p, SlotTaken))
          ELSE Set(i, [p EXCEPT !.pc = "createBooking"])
  /\ UNCHANGED <<bookings, sessions, calAttempts, webhookSecret, practitioners, queries, clock, calendar, env, calComLog>>

\* an insert step that goes on to the checkout when the store rejected the insert
CreateBookingInsert_Unchecked(i) ==
  /\ At(i, "createBooking", "createBooking")
  /\ LET p == procs[i]
         id == NewBookingId(bookings)
         bookingData == [practitionerId |-> p.practitionerId, client |-> p.client,
                         bookingTime |-> p.bookingTime, amount |-> p.hourlyRate]
     IN \/ /\ bookings' = CreateBooking(bookings, id, bookingData)
           /\ Set(i, [p EXCEPT !.pc = "createCheckoutSession", !.bookingId = id])
        \/ /\ Set(i, [p EXCEPT !.pc = "createCheckoutSession", !.bookingId = id])
           /\ UNCHANGED bookings
  /\ UNCHANGED <<sessions, calAttempts, webhookSecret, practitioners, queries, clock, calendar, env, calComLog>>

\* await createBooking(bookingData): the row is inserted, or the store rejects
\* the insert and the mutation rethrows
CreateBookingInsert(i) ==
  /\ At(i, "createBooking", "createBooking")
  /\ LET p == procs[i]
         id == NewBookingId(bookings)
         bookingData == [practitionerId |-> p.practitionerId, client |-> p.client,
                         bookingTime |-> p.bookingTime, amount |-> p.hourlyRate]
     IN \/ /\ bookings' = CreateBooking(bookings, id, bookingData)
           /\ Set(i, [p EXCEPT !.pc = "createCheckoutSession", !.bookingId = id])
        \/ /\ Set(i, Fail(p, StorageError))
           /\ UNCHANGED bookings
  /\ UNCHANGED <<sessions, calAttempts, webhookSecret, practitioners, queries, clock, calendar, env, calComLog>>

\* await createCheckoutSession: the provider opens a session, or the call throws
CreateBookingCheckout(i) ==
  /\ At(i, "createBooking", "createCheckoutSession")
  /\ LET p == procs[i]
         id == NewSessionId(sessions)
     IN \/ /\ sessions' = CreateCheckoutSession(sessions, id, p.hourlyRate, p.bookingId)
           /\ Set(i, [p EXCEPT !.pc = "updateBookingWithStripeData", !.sessionId = id])
        \/ /\ Set(i, Fail(p, "Failed to create checkout session"))
           /\ UNCHANGED sessions
  /\ UNCHANGED <<bookings, calAttempts, webhookSecret, practitioners, queries, clock, calendar, env, calComLog>>

\* await updateBookingWithStripeData(booking.id, checkoutSession.id, ""); return
CreateBookingAttach(i) ==
  /\ At(i, "createBooking", "updateBookingWithStripeData")
  /\ LET p == procs[i]
     IN /\ bookings' = UpdateBookingWithStripeData(bookings, p.bookingId, p.sessionId, EMPTY)
        /\ Set(i, [p EXCEPT !.pc = "done", !.returned = "checkout"])
  /\ UNCHANGED <<sessions, calAttempts, webhookSecret, practitioners, queries, clock, calendar, env, calComLog>>

\* what a successful createBooking returns
CreateBookingResult(p) ==
  [bookingId |-> p.bookingId, checkoutUrl |-> sessions[p.sessionId].url, amount |-> p.hourlyRate]

Succeeded(p) == p.pc = "done" /\ p.error = ""

\* ------------------------------------------------------- the payment provider
\* the customer pays at the hosted checkout page, whose URL only a successful
\* createBooking hands out
UrlHandedOut(s) ==
  \E i \in Requests : /\ procs[i].kind = "createBooking"
                      /\ Succeeded(procs[i])
                      /\ procs[i].sessionId = s

Pay(s) ==
  /\ s \in DOMAIN sessions
  /\ sessions[s].payment_status = "unpaid"
  /\ UrlHandedOut(s)
  /\ sessions' = [sessions EXCEPT ![s].payment_status = "paid", ![s].payment_intent = s]
  /\ UNCHANGED <<bookings, procs, calAttempts, webhookSecret, practitioners, queries, clock, calendar, env, calComLog>>

\* the event the provider emits about a session
EventOf(s, type) ==
  [type |-> type,
   payment_status |-> sessions[s].payment_status,
   bookingId |-> sessions[s].bookingId,
   sessionId |-> s,
   payment_intent |-> sessions[s].payment_intent]

\* the completed, paid event of a session opened elsewhere in the account, whose
\* metadata names a booking, names an id that is no booking, or names nothing
OtherSessionEvent(b) ==
  [type |-> Completed, payment_status |-> "paid", bookingId |-> b,
   sessionId |-> OtherSession, payment_intent |-> OtherSession]

StripeEvents ==
  {EventOf(s, Completed) : s \in DOMAIN sessions}
    \cup {EventOf(s, Expired) : s \in {x \in DOMAIN sessions : sessions[x].payment_status = "unpaid"}}
    \cup {OtherSessionEvent(b) : b \in DOMAIN bookings \cup {AttackerRef, NULL}}

\* deliveries (and redeliveries) by the provider: signed over the body sent
GenuineRequests == {[body |-> e, signature |-> Sign(e, ProviderSecret)] : e \in StripeEvents}

\* what someone without the secret can send: a body claiming a paid checkout for a
\* booking, unsigned or signed with another key, or a provider-signed event whose
\* body was altered afterwards
ForgedBody(b) ==
  [type |-> Completed, payment_status |-> "paid", bookingId |-> b,
   sessionId |-> AttackerRef, payment_intent |-> AttackerRef]

Tamper(e) ==
  [e EXCEPT !.type = Completed, !.payment_status = "paid", !.payment_intent = AttackerRef]

ForgedRequests ==
  {[body |-> ForgedBody(b), signature |-> sg] :
      b \in DOMAIN bookings, sg \in {NoSignature}} 
    \cup {[body |-> ForgedBody(b), signature |-> Sign(ForgedBody(b), AttackerSecret)] :
      b \in DOMAIN bookings}
    \cup {[body |-> Tamper(e), signature |-> Sign(e, ProviderSecret)] :
      e \in {x \in StripeEvents : Tamper(x) # x}}

\* ------------------------------------------- handleStripeWebhook (webhooks.ts)
\* a response that answers every request 200
Respond_Always200(p, status, msg) ==
  [p EXCEPT !.pc = "done", !.httpStatus = 200, !.error = msg]

Respond(p, status, msg) == [p EXCEPT !.pc = "done", !.httpStatus = status, !.error = msg]

\* the request arrives: header and secret checks, validateWebhookSignature,
\* processWebhookEvent, await getBooking
WebhookReceive(i) ==
  /\ CanStart(i)
  /\ \E req \in GenuineRequests \cup ForgedRequests :
       LET p == [IdleProc EXCEPT !.kind = "webhook", !.body = req.body,
                                 !.signature = req.signature]
           result == ProcessWebhookEvent(req.body)
           booking == GetBooking(bookings, result.bookingId)
           paymentIntentId == IF req.body.payment_intent = NULL THEN EMPTY
                              ELSE req.body.payment_intent
       IN \/ IF ~req.signature.present
               THEN Set(i, Respond(p, 400, "Missing signature"))
             ELSE IF webhookSecret = ""
               THEN Set(i, Respond(p, 500, "Webhook secret not configured"))
             ELSE IF ~ValidateWebhookSignature(req.body, req.signature, webhookSecret)
               THEN Set(i, Respond(p, 400, "Webhook signature verification failed"))
             ELSE IF result = NoConfirmation
               THEN Set(i, Respond(p, 200, ""))
             ELSE IF booking = NULL
               THEN Set(i, Respond(p, 404, "Booking not found"))
             ELSE IF /\ paymentIntentId # EMPTY
                     /\ bookings[booking].stripePaymentIntentId \in {NULL, EMPTY}
               THEN Set(i, [p EXCEPT !.pc = "updateBookingWithStripeData",
                                     !.bookingId = result.bookingId,
                                     !.sessionId = result.sessionId,
                                     !.statusAtStart = bookings[booking].status])
             ELSE Set(i, [p EXCEPT !.pc = "updateBookingStatus",
                                   !.bookingId = result.bookingId,
                                   !.sessionId = result.sessionId,
                                   !.statusAtStart = bookings[booking].status])
          \* getBooking rejects: the catch block answers
          \/ /\ req.signature.present
             /\ webhookSecret # ""
             /\ ValidateWebhookSignature(req.body, req.signature, webhookSecret)
             /\ result # NoConfirmation
             /\ Set(i, Respond(p, 400, StorageError))
  /\ UNCHANGED <<bookings, sessions, calAttempts, webhookSecret, practitioners, queries, clock, calendar, env, calComLog>>

\* await updateBookingWithStripeData(bookingId, sessionId, paymentIntentId); when
\* the store rejects, the catch block answers
WebhookAttach(i) ==
  /\ At(i, "webhook", "updateBookingWithStripeData")
  /\ LET p == procs[i]
     IN \/ /\ bookings' = UpdateBookingWithStripeData(bookings, p.bookingId, p.sessionId,
                                                      p.body.payment_intent)
           /\ Set(i, [p EXCEPT !.pc = "updateBookingStatus"])
        \/ /\ Set(i, Respond(p, 400, StorageError))
           /\ UNCHANGED bookings
  /\ UNCHANGED <<sessions, calAttempts, webhookSecret, practitioners, queries, clock, calendar, env, calComLog>>

\* await updateBookingStatus(bookingId, "confirmed"); res.json({received: true});
\* when the store rejects, the catch block answers
WebhookConfirm(i) ==
  /\ At(i, "webhook", "updateBookingStatus")
  /\ LET p == procs[i]
     IN \/ /\ bookings' = UpdateBookingStatus(bookings, p.bookingId, "confirmed")
           /\ Set(i, Respond(p, 200, ""))
        \/ /\ Set(i, Respond(p, 400, StorageError))
           /\ UNCHANGED bookings
  /\ UNCHANGED <<sessions, calAttempts, webhookSecret, practitioners, queries, clock, calendar, env, calComLog>>

\* -------------------------------------------- bookings.confirmBooking (router)
\* the mutation arrives; await getBookingByStripeSessionId
ConfirmBookingStart(i) ==
  /\ CanStart(i)
  /\ \E sid \in DOMAIN sessions \cup {AttackerRef} :
       LET p == [IdleProc EXCEPT !.kind = "confirmBooking", !.sessionId = sid]
           rows == BookingsByStripeSessionId(bookings, sid)
       IN IF rows = {}
            THEN Set(i, Fail(p, "Booking not found"))
            ELSE \E b \in rows :
                   Set(i, [p EXCEPT !.pc = "updateBookingStatus", !.bookingId = b,
                                    !.practitionerId = bookings[b].practitionerId,
                                    !.statusAtStart = bookings[b].status])
  /\ UNCHANGED <<bookings, sessions, calAttempts, webhookSecret, practitioners, queries, clock, calendar, env, calComLog>>

\* a status update that goes on to the calendar step whether or not the
\* write was made
ConfirmBookingUpdate_Unchecked(i) ==
  /\ At(i, "confirmBooking", "updateBookingStatus")
  /\ LET p == procs[i]
     IN \/ /\ bookings' = UpdateBookingStatus(bookings, p.bookingId, "confirmed")
           /\ Set(i, [p EXCEPT !.pc = "getPractitioner"])
        \/ /\ Set(i, [p EXCEPT !.pc = "getPractitioner"])
           /\ UNCHANGED bookings
  /\ UNCHANGED <<sessions, calAttempts, webhookSecret, practitioners, queries, clock, calendar, env, calComLog>>

\* await updateBookingStatus(booking.id, "confirmed"), outside the try block:
\* the write is made, or it raises and the mutation fails
ConfirmBookingUpdate(i) ==
  /\ At(i, "confirmBooking", "updateBookingStatus")
  /\ LET p == procs[i]
     IN \/ /\ bookings' = UpdateBookingStatus(bookings, p.bookingId, "confirmed")
           /\ Set(i, [p EXCEPT !.pc = "getPractitioner"])
        \/ /\ Set(i, Fail(p, StorageError))
           /\ UNCHANGED bookings
  /\ UNCHANGED <<sessions, calAttempts, webhookSecret, practitioners, queries, clock, calendar, env, calComLog>>

\* how the calendar step of confirmBooking can end: the event was created,
\* createCalComBooking returned success = false, or an exception was thrown
\* inside the try block
CalendarOutcomes == {"created", "failed", "threw"}

\* a confirmBooking that lets a failed calendar step fail the mutation
AfterCalendar_Failing(p, outcome) ==
  IF outcome = "created"
    THEN [p EXCEPT !.pc = "done", !.returned = "confirmed", !.calendar = outcome]
    ELSE [p EXCEPT !.pc = "done", !.error = "Cal.com event not created",
                   !.calendar = outcome]

\* the try / catch around the calendar step: every outcome is logged and the
\* mutation returns {bookingId, status: "confirmed"}
AfterCalendar(p, outcome) ==
  [p EXCEPT !.pc = "done", !.returned = "confirmed", !.calendar = outcome]

\* await getPractitioner(booking.practitionerId), inside the try; when the query
\* rejects, the catch block logs it
ConfirmBookingGetPractitioner(i) ==
  /\ At(i, "confirmBooking", "getPractitioner")
  /\ LET p == procs[i]
         practitioner == GetPractitioner(p.practitionerId)
     IN \/ IF practitioner.id # NULL
             THEN Set(i, [p EXCEPT !.pc = "createCalComBooking"])
             ELSE Set(i, [p EXCEPT !.pc = "done", !.returned = "confirmed"])
        \/ Set(i, AfterCalendar(p, "threw"))
  /\ UNCHANGED <<bookings, sessions, calAttempts, webhookSecret, practitioners, queries, clock, calendar, env, calComLog>>

\* await createCalComBooking(...): it creates the event or returns
\* success = false (its own catch turns every exception into that)
ConfirmBookingCalCom(i) ==
  /\ At(i, "confirmBooking", "createCalComBooking")
  /\ LET p == procs[i]
     IN /\ calAttempts' = [calAttempts EXCEPT ![p.bookingId] = @ + 1]
        /\ \E outcome \in CalendarOutcomes \ {"threw"} : Set(i, AfterCalendar(p, outcome))
  /\ UNCHANGED <<bookings, sessions, webhookSecret, practitioners, queries, clock, calendar, env, calComLog>>

\* --------------------------------------------- bookings.cancelBooking (router)
\* the mutation arrives; await getBooking
CancelBookingStart(i) ==
  /\ CanStart(i)
  /\ \E id \in DOMAIN bookings \cup {AttackerRef} :
       LET p == [IdleProc EXCEPT !.kind = "cancelBooking", !.arg = id]
           booking == GetBooking(bookings, id)
       IN IF booking = NULL
            THEN Set(i, Fail(p, "Booking not found"))
            ELSE Set(i, [p EXCEPT !.pc = "updateBookingStatus", !.bookingId = booking,
                                  !.statusAtStart = bookings[booking].status])
  /\ UNCHANGED <<bookings, sessions, calAttempts, webhookSecret, practitioners, queries, clock, calendar, env, calComLog>>

\* await updateBookingStatus(booking.id, "cancelled"); return
CancelBookingUpdate(i) ==
  /\ At(i, "cancelBooking", "updateBookingStatus")
  /\ LET p == procs[i]
     IN /\ bookings' = UpdateBookingStatus(bookings, p.bookingId, "cancelled")
        /\ Set(i, [p EXCEPT !.pc = "done", !.returned = "cancelled"])
  /\ UNCHANGED <<sessions, calAttempts, webhookSecret, practitioners, queries, clock, calendar, env, calComLog>>

\* -------------------------------------------- bookings.getAvailability (router)
\* slots.filter(s => s.available), read as a filter that keeps everything
AvailableOnly_All(slots) == slots

AvailableOnly(slots) == SelectSeq(slots, LAMBDA s : s.available)

\* const practitioner = await getPractitioner(input.practitionerId)
GetAvailabilityStart(r) ==
  /\ queries[r].pc = "idle"
  /\ \A q \in Runs : q < r => queries[q].pc # "idle"
  /\ Arrived < MaxRequests
  /\ \E practitionerId \in DOMAIN practitioners \cup {UnknownPractitioner} :
       LET practitioner == GetPractitioner(practitionerId)
           q == [IdleQuery EXCEPT !.practitionerId = practitionerId]
       IN IF practitioner.id = NULL
            THEN queries' = [queries EXCEPT ![r] = [q EXCEPT !.pc = "done", !.error = NotFound]]
            ELSE queries' = [queries EXCEPT ![r] =
                               [q EXCEPT !.pc = "getAvailabilityForPractitioner",
                                         !.practitioner = practitioner]]
  /\ UNCHANGED <<bookings, sessions, procs, calAttempts, webhookSecret, practitioners,
                 clock, calendar, env, calComLog>>

\* const slots = await getAvailabilityForPractitioner(...); filter; return
GetAvailabilityFetch(r) ==
  /\ queries[r].pc = "getAvailabilityForPractitioner"
  /\ \E cfg \in ([apiKey : {""}, response : {""}, draws : RandomDraws]
                 \cup [apiKey : CalComApiKeys \ {""}, response : ProviderFailures,
                       draws : RandomDraws]
                 \cup [apiKey : CalComApiKeys \ {""}, response : {"busy"}, draws : {""}]) :
     \E res \in {GetAvailabilityForPractitioner(queries[r].practitionerId, clock, cfg.apiKey,
                                                 cfg.response, calendar, cfg.draws)} :
       LET q == queries[r]
       IN queries' = [queries EXCEPT ![r] =
                        [q EXCEPT !.pc = "done",
                                  !.apiKey = cfg.apiKey,
                                  !.response = cfg.response,
                                  !.draws = cfg.draws,
                                  !.source = res.source,
                                  !.providerCalls = res.providerCalls,
                                  !.slots = res.slots,
                                  !.returned = AvailableOnly(res.slots)]]
  /\ UNCHANGED <<bookings, sessions, procs, calAttempts, webhookSecret, practitioners,
                 clock, calendar, env, calComLog>>

\* what a successful getAvailability returns
GetAvailabilityResult(q) == [practitioner |-> q.practitioner, slots |-> q.returned]

Next ==
  \/ \E i \in Requests : CreateBookingStart(i)
  \/ \E i \in Requests : CreateBookingCheck(i)
  \/ \E i \in Requests : CreateBookingInsert(i)
  \/ \E i \in Requests : CreateBookingCheckout(i)
  \/ \E i \in Requests : CreateBookingAttach(i)
  \/ \E s \in SessionIds : Pay(s)
  \/ \E i \in Requests : WebhookReceive(i)
  \/ \E i \in Requests : WebhookAttach(i)
  \/ \E i \in Requests : WebhookConfirm(i)
  \/ \E i \in Requests : ConfirmBookingStart(i)
  \/ \E i \in Requests : ConfirmBookingUpdate(i)
  \/ \E i \in Requests : ConfirmBookingGetPractitioner(i)
  \/ \E i \in Requests : ConfirmBookingCalCom(i)
  \/ \E i \in Requests : CancelBookingStart(i)
  \/ \E i \in Requests : CancelBookingUpdate(i)

Spec == Init /\ [][Next]_vars

\* ------------------------------------------------- edits of a practitioner's rate
\* the owner of the practitioners table changes the hourlyRate of a row
SetHourlyRate(id) ==
  /\ id \in DOMAIN practitioners
  /\ practitioners[id].hourlyRate # RaisedRate
  /\ practitioners' = [practitioners EXCEPT ![id].hourlyRate = RaisedRate]
  /\ UNCHANGED <<bookings, sessions, procs, calAttempts, webhookSecret, queries, clock, calendar, env, calComLog>>

NextWithRates ==
  \/ Next
  \/ SetHourlyRate(1)

SpecWithRates == Init /\ [][NextWithRates]_vars

\* ------------------------------------------------------------- scheduling
\* a webhook handler waiting on a store call resumes when the call settles: the
\* event loop runs every such continuation
HandlerFairness ==
  \A i \in Requests : WF_vars(WebhookAttach(i)) /\ WF_vars(WebhookConfirm(i))

FairSpec == Init /\ [][Next]_vars /\ HandlerFairness

\* ------------------------------------------------- bookings.getBooking (router)
\* const booking = await getBooking(input.bookingId); return booking
GetBookingQuery(i) ==
  /\ CanStart(i)
  /\ \E id \in DOMAIN bookings \cup {AttackerRef} :
       LET p == [IdleProc EXCEPT !.kind = "getBooking", !.arg = id]
           booking == GetBooking(bookings, id)
       IN IF booking = NULL
            THEN Set(i, Fail(p, "Booking not found"))
            ELSE Set(i, [p EXCEPT !.pc = "done", !.bookingId = booking,
                                  !.returned = "booking",
                                  !.row = bookings[booking]])
  /\ UNCHANGED <<bookings, sessions, calAttempts, webhookSecret, practitioners, queries, clock, calendar, env, calComLog>>

\* ------------------------------------- bookings.getBookingBySessionId (router)
\* const booking = await getBookingByStripeSessionId(input.sessionId); return booking
GetBookingBySessionIdQuery(i) ==
  /\ CanStart(i)
  /\ \E sid \in DOMAIN sessions \cup {AttackerRef} :
       LET p == [IdleProc EXCEPT !.kind = "getBookingBySessionId", !.sessionId = sid]
           rows == BookingsByStripeSessionId(bookings, sid)
       IN IF rows = {}
            THEN Set(i, Fail(p, "Booking not found"))
            ELSE \E b \in rows :
                   Set(i, [p EXCEPT !.pc = "done", !.bookingId = b,
                                    !.returned = "booking",
                                    !.row = bookings[b]])
  /\ UNCHANGED <<bookings, sessions, calAttempts, webhookSecret, practitioners, queries, clock, calendar, env, calComLog>>

NextWithReaders ==
  \/ Next
  \/ \E i \in Requests : GetBookingQuery(i)
  \/ \E i \in Requests : GetBookingBySessionIdQuery(i)

SpecWithReaders == Init /\ [][NextWithReaders]_vars

\* ------------------------------------- practitioner look-ups of the two procedures
\* createBooking and getAvailability requests only
LookupNext ==
  \/ \E i \in Requests : CreateBookingStart(i)
  \/ \E i \in Requests : CreateBookingCheck(i)
  \/ \E i \in Requests : CreateBookingInsert(i)
  \/ \E i \in Requests : CreateBookingCheckout(i)
  \/ \E i \in Requests : CreateBookingAttach(i)
  \/ \E r \in Runs : GetAvailabilityStart(r)
  \/ \E r \in Runs : GetAvailabilityFetch(r)

LookupSpec == Init /\ [][LookupNext]_vars

\* --------------------------------------------------- availability queries alone
\* the instants a query is made at: 13:00 of every day of the week, and the
\* last hour of a Monday
Nows == {(24 * d) + 13 : d \in 0..6} \cup {23}

Interval(start, end) == [start |-> start, end |-> end]

\* busy intervals around the first two slots of a day, empty ones included
BusyNear(day) ==
  {Interval(day + p[1], day + p[2]) :
     p \in {q \in {9, 10, 11} \X {9, 10, 11} : q[1] <= q[2]}}

\* what the provider may hold when asked at now: nothing, one interval near the
\* first slots, one interval over the whole grid, one entry whose start and end
\* are not dates, or two entries one after the other
Calendars(now) ==
  LET day == StartOfNextDay(now)
      near == BusyNear(day)
      whole == Interval(day, day + (24 * GridDays))
      bad == Interval(InvalidDate, InvalidDate)
  IN {<<>>}
       \cup {<<x>> : x \in near \cup {whole, bad}}
       \cup {<<p[1], p[2]>> : p \in {q \in near \X near : q[1].end < q[2].start}}
       \cup {<<bad, Interval(day + 9, day + 10)>>}

AvailabilityInit ==
  /\ bookings = [b \in {} |-> NULL]
  /\ sessions = [s \in {} |-> NULL]
  /\ procs = [i \in Requests |-> IdleProc]
  /\ calAttempts = [b \in BookingIds |-> 0]
  /\ webhookSecret = ProviderSecret
  /\ practitioners = MockPractitioners
  /\ queries = [r \in Runs |-> IdleQuery]
  /\ clock \in Nows
  /\ calendar \in Calendars(clock)
  /\ env = NoEnv
  /\ calComLog = <<>>

AvailabilityNext ==
  \/ \E r \in Runs : GetAvailabilityStart(r)
  \/ \E r \in Runs : GetAvailabilityFetch(r)

AvailabilitySpec == AvailabilityInit /\ [][AvailabilityNext]_vars

\* -------------------------------------- Cal.com event-type resolution (service)
\* Strings the resolution takes apart are sequences of characters.  The
\* practitioner ids: two that share their first 8 characters and one that
\* does not.
Uuid_A == <<"a", "b", "c", "d", "e", "f", "0", "1", "-", "1", "-", "a">>
Uuid_B == <<"a", "b", "c", "d", "e", "f", "0", "1", "-", "2", "-", "b">>
Uuid_C == <<"1", "2", "3", "4", "5", "6", "7", "8", "-", "3", "-", "c">>
PractitionerUuids == {Uuid_A, Uuid_B, Uuid_C}

\* str.replace(/ch/g, with): every occurrence of the character is replaced
RECURSIVE ReplaceAll(_, _, _)
ReplaceAll(str, ch, with) ==
  IF str = <<>> THEN <<>>
  ELSE (IF Head(str) = ch THEN with ELSE <<Head(str)>>) \o ReplaceAll(Tail(str), ch, with)

\* str.substring(0, n): the first n characters, the whole string when shorter
SubstringFrom0(str, n) == SubSeq(str, 1, IF n < Len(str) THEN n ELSE Len(str))

\* the name `CALCOM_EVENT_TYPE_${suffix}` of an environment variable
EventTypeVar(suffix) == <<"CALCOM_EVENT_TYPE_">> \o suffix

CALCOM_API_KEY == <<"CALCOM_API_KEY">>
CALCOM_USER_ID == <<"CALCOM_USER_ID">>
CALCOM_EVENT_TYPE_DEFAULT == EventTypeVar(<<"D", "E", "F", "A", "U", "L", "T">>)

\* process.env[name]: an unset variable reads undefined and a variable set to
\* the empty string reads ""; both are falsy and the code tests nothing else,
\* so "" stands for both
Getenv(e, name) == IF name \in DOMAIN e THEN e[name] ELSE ""

\* a || b || c || d: the first truthy operand, else the last one
FirstTruthy(values) ==
  IF \E k \in 1..Len(values) : values[k] # ""
    THEN values[CHOOSE k \in 1..Len(values) :
                  /\ values[k] # ""
                  /\ \A j \in 1..(k - 1) : values[j] = ""]
    ELSE values[Len(values)]

\* a resolution that tries the 8-character prefix before the full forms
ResolveEventTypeId_ShortFirst(e, practitionerId) ==
  FirstTruthy(<<Getenv(e, EventTypeVar(SubstringFrom0(practitionerId, 8))),
                Getenv(e, EventTypeVar(ReplaceAll(practitionerId, "-", <<"_">>))),
                Getenv(e, EventTypeVar(ReplaceAll(practitionerId, "-", <<>>))),
                Getenv(e, CALCOM_EVENT_TYPE_DEFAULT)>>)

\* the eventTypeId both functions compute for a practitioner
ResolveEventTypeId(e, practitionerId) ==
  LET uuidNormalized == ReplaceAll(practitionerId, "-", <<"_">>)
      uuidNoHyphens == ReplaceAll(practitionerId, "-", <<>>)
      uuidShort == SubstringFrom0(practitionerId, 8)
  IN FirstTruthy(<<Getenv(e, EventTypeVar(uuidNormalized)),
                   Getenv(e, EventTypeVar(uuidNoHyphens)),
                   Getenv(e, EventTypeVar(uuidShort)),
                   Getenv(e, CALCOM_EVENT_TYPE_DEFAULT)>>)

\* getCalComAvailability up to its request: without API key it answers from
\* mock data; otherwise it resolves the two ids, warns when one is missing and
\* queries the provider with what it has
AvailabilityRequest(e, practitionerId) ==
  IF Getenv(e, CALCOM_API_KEY) = ""
    THEN [op |-> "getCalComAvailability", practitionerId |-> practitionerId,
          userId |-> "", eventTypeId |-> "", providerCalls |-> 0,
          outcome |-> "mock data"]
    ELSE [op |-> "getCalComAvailability", practitionerId |-> practitionerId,
          userId |-> Getenv(e, CALCOM_USER_ID),
          eventTypeId |-> ResolveEventTypeId(e, practitionerId),
          providerCalls |-> 1,
          outcome |-> "provider queried"]

\* createCalComBooking: success is outcome "created"; every other outcome is
\* the error of a {success: false} result
CreateCalComBooking(e, practitionerId, providerAccepts) ==
  LET calComUserId == Getenv(e, CALCOM_USER_ID)
      eventTypeId == ResolveEventTypeId(e, practitionerId)
      result == [op |-> "createCalComBooking", practitionerId |-> practitionerId,
                 userId |-> "", eventTypeId |-> "", providerCalls |-> 0,
                 outcome |-> ""]
  IN IF Getenv(e, CALCOM_API_KEY) = ""
       THEN [result EXCEPT !.outcome = "API key not configured"]
     ELSE IF calComUserId = ""
       THEN [result EXCEPT !.eventTypeId = eventTypeId,
                           !.outcome = "CALCOM_USER_ID not configured"]
     ELSE IF eventTypeId = ""
       THEN [result EXCEPT !.userId = calComUserId,
                           !.outcome = "Practitioner configuration missing: eventTypeId not found"]
     ELSE [result EXCEPT !.userId = calComUserId, !.eventTypeId = eventTypeId,
                         !.providerCalls = 1,
                         !.outcome = IF providerAccepts THEN "created"
                                     ELSE "Unknown error creating booking"]

\* the variables an operator may have set, and the value each one is set to
EnvNames ==
  {CALCOM_API_KEY, CALCOM_USER_ID, CALCOM_EVENT_TYPE_DEFAULT,
   <<"CALCOM_EVENT_TYPE_", "a", "b", "c", "d", "e", "f", "0", "1", "_", "1", "_", "a">>,
   <<"CALCOM_EVENT_TYPE_", "a", "b", "c", "d", "e", "f", "0", "1", "1", "a">>,
   <<"CALCOM_EVENT_TYPE_", "a", "b", "c", "d", "e", "f", "0", "1", "_", "2", "_", "b">>,
   <<"CALCOM_EVENT_TYPE_", "a", "b", "c", "d", "e", "f", "0", "1", "2", "b">>,
   <<"CALCOM_EVENT_TYPE_", "a", "b", "c", "d", "e", "f", "0", "1">>,
   <<"CALCOM_EVENT_TYPE_", "1", "2", "3", "4", "5", "6", "7", "8", "_", "3", "_", "c">>}

EnvValue(name) ==
  IF name = CALCOM_API_KEY THEN "cal_live_key"
  ELSE IF name = CALCOM_USER_ID THEN "user-7"
  ELSE IF name = CALCOM_EVENT_TYPE_DEFAULT THEN "100"
  ELSE IF Len(name) = 9 THEN "108"
  ELSE IF name[10] = "_" /\ name[11] = "1" THEN "101"
  ELSE IF name[10] = "1" THEN "102"
  ELSE IF name[10] = "_" /\ name[11] = "2" THEN "103"
  ELSE IF name[10] = "2" THEN "104"
  ELSE "105"

Environments == {[n \in S |-> EnvValue(n)] : S \in SUBSET EnvNames}

MaxCalls == 2

EventTypeInit ==
  /\ bookings = [b \in {} |-> NULL]
  /\ sessions = [s \in {} |-> NULL]
  /\ procs = [i \in Requests |-> IdleProc]
  /\ calAttempts = [b \in BookingIds |-> 0]
  /\ webhookSecret = ProviderSecret
  /\ practitioners = MockPractitioners
  /\ queries = [r \in Runs |-> IdleQuery]
  /\ clock = 0
  /\ calendar = <<>>
  /\ env \in Environments
  /\ calComLog = <<>>

\* getCalComAvailability(practitionerId) is called
GetCalComAvailabilityCall ==
  /\ Len(calComLog) < MaxCalls
  /\ \E p \in PractitionerUuids :
       calComLog' = Append(calComLog, AvailabilityRequest(env, p))
  /\ UNCHANGED <<bookings, sessions, procs, calAttempts, webhookSecret, practitioners, queries, clock, calendar, env>>

\* createCalComBooking({practitionerId, ...}) is called; the provider accepts
\* the booking or answers with an error
CreateCalComBookingCall ==
  /\ Len(calComLog) < MaxCalls
  /\ \E p \in PractitionerUuids, providerAccepts \in BOOLEAN :
       calComLog' = Append(calComLog, CreateCalComBooking(env, p, providerAccepts))
  /\ UNCHANGED <<bookings, sessions, procs, calAttempts, webhookSecret, practitioners, queries, clock, calendar, env>>

EventTypeNext ==
  \/ GetCalComAvailabilityCall
  \/ CreateCalComBookingCall

EventTypeSpec == EventTypeInit /\ [][EventTypeNext]_vars

\* ==================================================================== claims
\* C1: in every reachable state no two distinct bookings that are pending or
\* confirmed share the same (practitionerId, bookingTime).
C1_NoDoubleBooking ==
  \A a, b \in DOMAIN bookings :
    (/\ a # b
     /\ bookings[a].status \in {"pending", "confirmed"}
     /\ bookings[b].status \in {"pending", "confirmed"})
      => ~(/\ bookings[a].practitionerId = bookings[b].practitionerId
           /\ bookings[a].bookingTime = bookings[b].bookingTime)

\* a createBooking request that is over and has met no payment-provider failure,
\* for a slot that had no booking row when the request arrived
FinishedCleanCreate(i) ==
  /\ procs[i].kind = "createBooking"
  /\ procs[i].pc = "done"
  /\ procs[i].error \in {"", SlotTaken}
  /\ \A b \in procs[i].idsAtStart :
       ~(/\ bookings[b].practitionerId = procs[i].practitionerId
         /\ bookings[b].bookingTime = procs[i].bookingTime)

\* C2: of two concurrent createBooking requests for the same free slot, with every
\* storage and payment call succeeding, exactly one returns
\* {bookingId, checkoutUrl, amount} and the other fails with the slot-taken error.
C2_ExactlyOneWins ==
  \A i, j \in Requests :
    (/\ i # j
     /\ FinishedCleanCreate(i)
     /\ FinishedCleanCreate(j)
     /\ procs[i].practitionerId = procs[j].practitionerId
     /\ procs[i].bookingTime = procs[j].bookingTime)
      => \/ Succeeded(procs[i]) /\ procs[j].error = SlotTaken
         \/ Succeeded(procs[j]) /\ procs[i].error = SlotTaken

\* the request carries a signature header computed by the holder of the
\* configured secret over exactly the body received
Authentic(body, signature) ==
  /\ signature.present
  /\ webhookSecret # ""
  /\ signature = Sign(body, webhookSecret)

\* request i takes a step
Steps(i) == procs'[i] # procs[i]

\* C3: a webhook request with a missing signature header, with a signature that
\* does not verify against the raw body and the secret, or arriving when no
\* secret is configured, is answered with an error and changes no field of any
\* booking, whatever its payload claims.
C3_UnverifiedRejected ==
  [][\A i \in Requests :
       (/\ Steps(i)
        /\ procs'[i].kind = "webhook"
        /\ ~Authentic(procs'[i].body, procs'[i].signature))
         => /\ bookings' = bookings
            /\ procs'[i].pc = "done"
            /\ procs'[i].httpStatus \in {400, 500}
            /\ procs'[i].error # ""]_vars

\* C3 witness: with a booking still pending, one request without signature and one
\* with a provider signature over a body altered to claim a paid checkout for that
\* booking have both been answered 400.
C3_Witness ==
  \E i, j \in Requests : \E b \in DOMAIN bookings :
    /\ bookings[b].status = "pending"
    /\ procs[i].kind = "webhook" /\ procs[i].pc = "done"
    /\ ~procs[i].signature.present
    /\ procs[i].body = ForgedBody(b)
    /\ procs[i].httpStatus = 400
    /\ procs[j].kind = "webhook" /\ procs[j].pc = "done"
    /\ procs[j].signature.present
    /\ procs[j].signature.key = webhookSecret
    /\ procs[j].signature.signed # procs[j].body
    /\ procs[j].body.type = Completed
    /\ procs[j].body.payment_status = "paid"
    /\ procs[j].body.bookingId = b
    /\ procs[j].httpStatus = 400

\* C4: a booking goes from pending to confirmed only in a step of a webhook
\* handler that is processing a signature-verified notification of a completed,
\* paid checkout for that booking.
C4_OnlyVerifiedNotificationConfirms ==
  [][\A b \in DOMAIN bookings :
       (bookings[b].status = "pending" /\ bookings'[b].status = "confirmed")
         => \E i \in Requests :
              /\ Steps(i)
              /\ procs[i].kind = "webhook"
              /\ Authentic(procs[i].body, procs[i].signature)
              /\ procs[i].body.type = Completed
              /\ procs[i].body.payment_status = "paid"
              /\ procs[i].body.bookingId = b]_vars

\* an earlier delivery of the notification that request i carries has been
\* processed and acknowledged
DeliveredBefore(i) ==
  \E j \in Requests :
    /\ j # i
    /\ procs[j].kind = "webhook"
    /\ procs[j].pc = "done"
    /\ procs[j].httpStatus = 200
    /\ procs[j].body = procs[i].body
    /\ procs[j].signature = procs[i].signature

\* C5: redelivery of a verified completed notification is a no-op: a later
\* delivery that finds the booking already confirmed leaves the booking record
\* unchanged, leaves it confirmed and is answered 200.
C5_RedeliveryIsNoOp ==
  [][\A i \in Requests :
       (/\ Steps(i)
        /\ procs[i].kind = "webhook"
        /\ procs[i].bookingId \in DOMAIN bookings
        /\ DeliveredBefore(i)
        /\ procs'[i].error # StorageError
        /\ bookings[procs[i].bookingId].status = "confirmed")
         => /\ bookings'[procs[i].bookingId] = bookings[procs[i].bookingId]
            /\ procs'[i].pc = "done" => procs'[i].httpStatus = 200]_vars

\* C6: over any sequence of Confirm calls createCalComBooking is attempted at
\* most once for a booking.
C6_AtMostOneCalendarAttempt == \A b \in BookingIds : calAttempts[b] <= 1

\* request i found booking b with status st when it arrived and now takes a step
LaterStep(i, b, st) ==
  /\ Steps(i)
  /\ procs[i].bookingId = b
  /\ procs[i].statusAtStart = st
  /\ bookings[b].status = st

\* C7: confirmed is terminal: no operation that arrives once a booking is
\* confirmed (a cancelBooking on its id, a repeated or different notification)
\* changes its status.
C7_ConfirmedIsTerminal ==
  [][\A b \in DOMAIN bookings : \A i \in Requests :
       LaterStep(i, b, "confirmed") => bookings'[b].status = "confirmed"]_vars

\* C8: cancelled is terminal: no verified completed notification and no
\* confirmBooking call that arrives once a booking is cancelled changes its status.
C8_CancelledIsTerminal ==
  [][\A b \in DOMAIN bookings : \A i \in Requests :
       LaterStep(i, b, "cancelled") => bookings'[b].status = "cancelled"]_vars

\* C9: when every existing booking for the requested (practitionerId, bookingTime)
\* is cancelled, the conflict check finds nothing and createBooking is not
\* rejected as slot-taken.
C9_CancelledIgnored ==
  [][\A i \in Requests :
       (/\ Steps(i)
        /\ At(i, "createBooking", "checkBookingConflict")
        /\ \A b \in DOMAIN bookings :
             (/\ bookings[b].practitionerId = procs[i].practitionerId
              /\ bookings[b].bookingTime = procs[i].bookingTime)
               => bookings[b].status = "cancelled")
         => procs'[i].error # SlotTaken]_vars

VerifiedPaidFor(p, b) ==
  /\ p.kind = "webhook"
  /\ Authentic(p.body, p.signature)
  /\ p.body.type = Completed
  /\ p.body.payment_status = "paid"
  /\ p.body.bookingId = b

\* C11: a verified completed notification whose session id differs from the stored
\* stripeSessionId of the booking named in its metadata does not confirm that
\* booking and does not overwrite its stored checkout-session reference.
C11_SessionMustMatch ==
  [][\A i \in Requests : \A b \in DOMAIN bookings :
       (/\ Steps(i)
        /\ VerifiedPaidFor(procs[i], b)
        /\ bookings[b].stripeSessionId # NULL
        /\ bookings[b].stripeSessionId # procs[i].body.sessionId)
         => /\ bookings'[b].stripeSessionId = bookings[b].stripeSessionId
            /\ bookings[b].status # "confirmed" => bookings'[b].status # "confirmed"]_vars

\* C12: a webhook handler that found a booking pending and has answered 200 after
\* setting it confirmed has attempted the calendar-event creation for it.
C12_WebhookCreatesCalendarEvent ==
  \A i \in Requests :
    (/\ procs[i].kind = "webhook"
     /\ procs[i].pc = "done"
     /\ procs[i].httpStatus = 200
     /\ procs[i].bookingId # NULL
     /\ procs[i].body.sessionId \in DOMAIN sessions
     /\ procs[i].statusAtStart = "pending")
      => /\ procs[i].calendar # ""
         /\ calAttempts[procs[i].bookingId] >= 1

\* C13: when the calendar step of confirmBooking ends with success = false or with
\* an exception, that step changes no booking (the status written just before
\* stays), the mutation returns {bookingId, status: "confirmed"} with no error,
\* and the request is over: it makes no further calendar attempt.
C13_CalendarFailureKeepsConfirmation ==
  [][\A i \in Requests :
       (/\ Steps(i)
        /\ procs[i].kind = "confirmBooking"
        /\ procs[i].pc \in {"getPractitioner", "createCalComBooking"}
        /\ procs'[i].calendar \in {"failed", "threw"})
         => /\ bookings' = bookings
            /\ procs'[i].pc = "done"
            /\ procs'[i].returned = "confirmed"
            /\ procs'[i].error = ""
            /\ procs'[i].bookingId = procs[i].bookingId
            /\ calAttempts'[procs[i].bookingId] <= calAttempts[procs[i].bookingId] + 1]_vars

\* C13 witness: a booking is confirmed, one confirmBooking for it has returned
\* after createCalComBooking reported failure and another after an exception in
\* the try block.
C13_Witness ==
  \E i, j \in Requests :
    /\ procs[i].kind = "confirmBooking" /\ procs[i].pc = "done"
    /\ procs[i].calendar = "failed" /\ procs[i].returned = "confirmed"
    /\ procs[j].kind = "confirmBooking" /\ procs[j].pc = "done"
    /\ procs[j].calendar = "threw" /\ procs[j].returned = "confirmed"
    /\ procs[j].bookingId = procs[i].bookingId
    /\ bookings[procs[i].bookingId].status = "confirmed"

\* C14: when createCheckoutSession fails after the row was inserted, createBooking
\* ends with an error and returns nothing, the step changes no booking and opens
\* no session, and the inserted row is still there: pending and without
\* checkout-session reference unless another request has written it since.
C14_CheckoutFailureLeavesPending ==
  [][\A i \in Requests :
       (/\ Steps(i)
        /\ At(i, "createBooking", "createCheckoutSession")
        /\ procs'[i].sessionId = NULL)
         => /\ procs'[i].pc = "done"
            /\ procs'[i].error # ""
            /\ procs'[i].returned = ""
            /\ bookings' = bookings
            /\ sessions' = sessions
            /\ procs[i].bookingId \in DOMAIN bookings'
            /\ LET row == bookings'[procs[i].bookingId]
               IN row.updatedAt = row.createdAt
                    => /\ row.status = "pending"
                       /\ row.stripeSessionId = NULL
                       /\ row.stripePaymentIntentId = NULL]_vars

\* C14 witness: a createBooking has ended with the checkout error and its row is
\* in the table, pending, with no checkout-session reference.
C14_Witness ==
  \E i \in Requests :
    /\ procs[i].kind = "createBooking" /\ procs[i].pc = "done"
    /\ procs[i].error = "Failed to create checkout session"
    /\ procs[i].bookingId \in DOMAIN bookings
    /\ bookings[procs[i].bookingId].status = "pending"
    /\ bookings[procs[i].bookingId].stripeSessionId = NULL
\* C15: for every successful createBooking the returned amount, the amount of
\* the booking row and the amount of the checkout session all equal the
\* hourlyRate read in that createBooking; and no step changes the amount of an
\* existing booking, whether it edits the practitioner's rate, confirms or
\* cancels.
C15_AmountIntegrity ==
  /\ [](\A i \in Requests :
          (procs[i].kind = "createBooking" /\ Succeeded(procs[i]))
            => /\ CreateBookingResult(procs[i]).amount = procs[i].hourlyRate
               /\ bookings[procs[i].bookingId].amount = procs[i].hourlyRate
               /\ sessions[procs[i].sessionId].amount = procs[i].hourlyRate
               /\ procs[i].hourlyRate
                    \in {MockPractitioners[procs[i].practitionerId].hourlyRate, RaisedRate})
  /\ [][\A b \in DOMAIN bookings : bookings'[b].amount = bookings[b].amount]_vars

\* C15 witness: a booking made at the old rate has been confirmed by one request
\* and cancelled by another, the practitioner's rate has been raised, and the
\* booking still carries the amount of the old rate that its createBooking
\* returned.
C15_Witness ==
  \E b \in DOMAIN bookings : \E c, i, j \in Requests :
    /\ procs[c].kind = "createBooking" /\ Succeeded(procs[c])
    /\ procs[c].bookingId = b
    /\ procs[i].kind = "confirmBooking" /\ procs[i].returned = "confirmed"
    /\ procs[i].bookingId = b
    /\ procs[j].kind = "cancelBooking" /\ procs[j].returned = "cancelled"
    /\ procs[j].bookingId = b
    /\ practitioners[bookings[b].practitionerId].hourlyRate = RaisedRate
    /\ bookings[b].amount = MockPractitioners[bookings[b].practitionerId].hourlyRate
    /\ bookings[b].amount # RaisedRate
    /\ CreateBookingResult(procs[c]).amount = bookings[b].amount

\* what the notification reports: a completed, paid checkout with a bookingId
ReportsPaidBooking(body) ==
  /\ body.type = Completed
  /\ body.payment_status = "paid"
  /\ body.bookingId # NULL

\* C16: a verified notification that is not a completed, paid checkout with a
\* bookingId in its metadata yields no confirmation: the handler ends at once
\* with 200 {received: true} and no field of any booking changes.
C16_OnlyCompletedPaidConfirms ==
  [][\A i \in Requests :
       (/\ Steps(i)
        /\ procs'[i].kind = "webhook"
        /\ Authentic(procs'[i].body, procs'[i].signature)
        /\ ~ReportsPaidBooking(procs'[i].body))
         => /\ bookings' = bookings
            /\ procs'[i].bookingId = NULL
            /\ procs'[i].pc = "done"
            /\ procs'[i].httpStatus = 200
            /\ procs'[i].error = ""]_vars

\* C16 witness: a verified expired-session event and a verified completed event of
\* an unpaid session have both been answered 200, and the booking of the unpaid
\* session is still pending.
C16_Witness ==
  \E i, j \in Requests :
    /\ procs[i].kind = "webhook" /\ procs[i].pc = "done"
    /\ Authentic(procs[i].body, procs[i].signature)
    /\ procs[i].body.type = Expired
    /\ procs[i].httpStatus = 200
    /\ procs[j].kind = "webhook" /\ procs[j].pc = "done"
    /\ Authentic(procs[j].body, procs[j].signature)
    /\ procs[j].body.type = Completed
    /\ procs[j].body.payment_status = "unpaid"
    /\ procs[j].httpStatus = 200
    /\ bookings[procs[j].body.bookingId].status = "pending"
\* request i handles a verified completed, paid notification that references the
\* checkout session a successful createBooking stored on booking b, which it
\* found pending
DeliveredFor(p, b) ==
  /\ VerifiedPaidFor(p, b)
  /\ b \in DOMAIN bookings
  /\ bookings[b].stripeSessionId = p.body.sessionId
  /\ p.statusAtStart = "pending"
  /\ \E c \in Requests : /\ procs[c].kind = "createBooking"
                         /\ Succeeded(procs[c])
                         /\ procs[c].bookingId = b
                         /\ procs[c].sessionId = p.body.sessionId

\* C17: when the handler of a verified completed, paid notification for the
\* checkout session of a successfully created booking finishes without a storage
\* failure, the booking is confirmed at that moment and the answer is 200; and
\* with handlers scheduled fairly every such handler does finish, with 200 unless
\* a store call failed.
C17_EndToEndConfirmation ==
  /\ [][\A i \in Requests : \A b \in DOMAIN bookings :
          (/\ Steps(i)
           /\ DeliveredFor(procs[i], b)
           /\ procs'[i].pc = "done"
           /\ procs'[i].error # StorageError)
            => /\ bookings'[b].status = "confirmed"
               /\ procs'[i].httpStatus = 200]_vars
  /\ \A i \in Requests :
       (procs[i].kind = "webhook" /\ procs[i].pc # "done")
         ~> (/\ procs[i].pc = "done"
             /\ procs[i].httpStatus = 200 \/ procs[i].error = StorageError)

\* C17 witness: the handler of such a notification has answered 200 and the
\* booking, created by a createBooking that returned, is confirmed.
C17_Witness ==
  \E i \in Requests : \E b \in DOMAIN bookings :
    /\ DeliveredFor(procs[i], b)
    /\ procs[i].pc = "done"
    /\ procs[i].httpStatus = 200
    /\ procs[i].body.sessionId \in DOMAIN sessions
    /\ bookings[b].status = "confirmed"

\* C18: a storage failure met while handling a signature-verified notification is
\* answered with a 5xx status.
C18_StorageFailureIs5xx ==
  \A i \in Requests :
    (/\ procs[i].kind = "webhook"
     /\ procs[i].pc = "done"
     /\ Authentic(procs[i].body, procs[i].signature)
     /\ procs[i].error = StorageError)
      => procs[i].httpStatus >= 500

\* C19: the answer of a finished webhook request follows from its outcome: 400
\* without signature header or with a signature that does not verify; 200 for a
\* verified notification that was ignored or processed without storage failure;
\* and 404 or 200, with no booking created or changed, for a verified completed
\* notification that names a booking that does not exist.
C19_ResponseByOutcome ==
  /\ [](\A i \in Requests :
          (procs[i].kind = "webhook" /\ procs[i].pc = "done") =>
            LET p == procs[i]
                verified == Authentic(p.body, p.signature)
            IN /\ ~p.signature.present => p.httpStatus = 400
               /\ (p.signature.present /\ webhookSecret # "" /\ ~verified)
                    => p.httpStatus = 400
               /\ (verified /\ ~ReportsPaidBooking(p.body)) => p.httpStatus = 200
               /\ (/\ verified
                   /\ ReportsPaidBooking(p.body)
                   /\ p.body.bookingId \in DOMAIN bookings
                   /\ p.error # StorageError) => p.httpStatus = 200
               /\ (/\ verified
                   /\ ReportsPaidBooking(p.body)
                   /\ p.body.bookingId \notin DOMAIN bookings
                   /\ p.error # StorageError) => p.httpStatus \in {404, 200})
  /\ [][\A i \in Requests :
          (/\ Steps(i)
           /\ procs'[i].kind = "webhook"
           /\ ReportsPaidBooking(procs'[i].body)
           /\ procs'[i].body.bookingId \notin DOMAIN bookings)
            => bookings' = bookings]_vars

\* C19 witness: two finished webhook requests: one verified and processed,
\* answered 200 with its booking confirmed, and one verified and naming a booking
\* that does not exist, answered 404.
C19_Witness ==
  \E j, k \in Requests :
    /\ procs[j].kind = "webhook" /\ procs[j].pc = "done"
    /\ Authentic(procs[j].body, procs[j].signature)
    /\ procs[j].bookingId \in DOMAIN bookings
    /\ bookings[procs[j].bookingId].status = "confirmed"
    /\ procs[j].httpStatus = 200
    /\ procs[k].kind = "webhook" /\ procs[k].pc = "done"
    /\ Authentic(procs[k].body, procs[k].signature)
    /\ ReportsPaidBooking(procs[k].body)
    /\ procs[k].body.bookingId \notin DOMAIN bookings
    /\ procs[k].httpStatus = 404

\* instants that have passed when the requests arrive
PastTimes == {1}

\* the body breaks a rule the claim lists: no name, no phone, no "@" between two
\* parts of the e-mail, a bookingTime that is not ISO-8601 or not in the future
Malformed(input) ==
  \/ input.clientName = <<>>
  \/ input.clientPhone = <<>>
  \/ ~(\E k \in DOMAIN input.clientEmail :
         /\ input.clientEmail[k] = "@"
         /\ 1 < k
         /\ k < Len(input.clientEmail))
  \/ input.bookingTime.format # "ISO-8601"
  \/ input.bookingTime.instant \in PastTimes

\* C20: a createBooking whose input is malformed fails with a validation error
\* before touching state: it reads and inserts no booking and opens no session.
C20_MalformedInputRejected ==
  \A i \in Requests :
    (procs[i].kind = "createBooking" /\ Malformed(procs[i].input))
      => /\ procs[i].pc = "done"
         /\ procs[i].error = BadRequest
         /\ procs[i].bookingId = NULL
         /\ procs[i].sessionId = NULL

\* C21: a createBooking or getAvailability request whose practitionerId matches
\* no practitioner has failed with 'Practitioner not found'; the createBooking
\* never stood at the conflict check, inserted no booking and opened no
\* session, and the getAvailability made no call to the scheduling provider
\* and computed no slots.
C21_UnknownPractitionerStopsBoth ==
  /\ \A i \in Requests :
       (/\ procs[i].kind = "createBooking"
        /\ InputSchema(procs[i].input)
        /\ procs[i].input.practitionerId \notin DOMAIN practitioners)
         => /\ procs[i].pc = "done"
            /\ procs[i].error = NotFound
            /\ procs[i].bookingId = NULL
            /\ procs[i].sessionId = NULL
  /\ \A b \in DOMAIN bookings : bookings[b].practitionerId \in DOMAIN practitioners
  /\ \A r \in Runs :
       (/\ queries[r].pc # "idle"
        /\ queries[r].practitionerId \notin DOMAIN practitioners)
         => /\ queries[r].pc = "done"
            /\ queries[r].error = NotFound
            /\ queries[r].providerCalls = 0
            /\ queries[r].slots = <<>>
            /\ queries[r].returned = <<>>

C21_Witness ==
  /\ \E i \in Requests :
       /\ procs[i].kind = "createBooking"
       /\ procs[i].input.practitionerId = UnknownPractitioner
       /\ procs[i].error = NotFound
  /\ \E r \in Runs :
       /\ queries[r].practitionerId = UnknownPractitioner
       /\ queries[r].error = NotFound
  /\ \E r \in Runs :
       /\ queries[r].pc = "done"
       /\ queries[r].providerCalls = 1
       /\ queries[r].error = ""

\* the first midnight after an instant, found without the service's arithmetic
NextMidnight(t) == CHOOSE m \in (t + 1)..(t + 24) : m % 24 = 0

\* C22: every slot the availability service produced, from the provider's busy
\* intervals or from the placeholder generator, starts before it ends, ends
\* exactly one hour after it starts, lies on a Monday to Friday, starts strictly
\* after the instant of the query, and lies within the 14 days that begin at
\* the start of the day after the query.
C22_SlotsWellFormed ==
  \A r \in Runs :
    \A k \in DOMAIN queries[r].slots :
      LET slot == queries[r].slots[k]
      IN /\ slot.startTime < slot.endTime
         /\ slot.endTime = slot.startTime + 1
         /\ (slot.startTime \div 24) % 7 \in 0..4
         /\ (slot.startTime \div 24) = (slot.endTime \div 24)
         /\ slot.startTime > clock
         /\ slot.startTime >= NextMidnight(clock)
         /\ slot.endTime <= NextMidnight(clock) + (24 * 14)

\* asked on a Friday, one query answered from the provider and one from the
\* placeholder generator, each with slots
C22_Witness ==
  /\ (clock \div 24) % 7 = 4
  /\ \E a, b \in Runs :
       /\ queries[a].source = "provider"
       /\ queries[b].source = "placeholder"
       /\ queries[a].slots # <<>>
       /\ queries[b].slots # <<>>

\* the busy list holds intervals only: every start and end is a date and no
\* interval ends before it starts
ProperIntervals(busySlots) ==
  \A k \in DOMAIN busySlots :
    /\ busySlots[k].start # InvalidDate
    /\ busySlots[k].end # InvalidDate
    /\ busySlots[k].start <= busySlots[k].end

\* the half-open intervals [s1, e1) and [s2, e2) overlap
Overlap(s1, e1, s2, e2) == s1 < e2 /\ s2 < e1

\* C23: in a result computed from the provider's busy intervals a slot is
\* marked unavailable exactly when some busy interval overlaps it as a
\* half-open interval; a busy interval that only touches the slot at an end
\* point, an empty one included, leaves it available.
C23_BusyIffOverlap ==
  \A r \in Runs :
    (queries[r].source = "provider" /\ ProperIntervals(calendar))
      => \A k \in DOMAIN queries[r].slots :
           LET slot == queries[r].slots[k]
           IN slot.available
                <=> ~(\E j \in DOMAIN calendar :
                        Overlap(slot.startTime, slot.endTime,
                                calendar[j].start, calendar[j].end))

\* the provider call of a run did not yield a usable answer: no API key is
\* configured, the call timed out, the status was not 2xx, or the body of a 200
\* answer is malformed (no busy array, or an entry that is not a pair of dates)
ProviderUnusable(q) ==
  \/ q.apiKey = ""
  \/ q.response \in {"timeout", "status", "nobusy"}
  \/ /\ q.response = "busy"
     /\ \E k \in DOMAIN calendar :
          calendar[k].start = InvalidDate \/ calendar[k].end = InvalidDate

\* C24: a getAvailability for an existing practitioner never fails because of
\* the scheduling provider: when the provider gave no usable answer the
\* request still ends without error and what the service returned is the
\* placeholder slot set.
C24_ProviderFailureFallsBack ==
  \A r \in Runs :
    (/\ queries[r].pc = "done"
     /\ queries[r].practitionerId \in DOMAIN practitioners)
      => /\ queries[r].error = ""
         /\ GetAvailabilityResult(queries[r]).practitioner
              = practitioners[queries[r].practitionerId]
         /\ ProviderUnusable(queries[r])
              => \E draws \in RandomDraws :
                   queries[r].slots
                     = GetMockAvailability(queries[r].practitionerId, clock, draws)

\* C25: two finished getAvailability requests for the same practitioner at the
\* same instant and with the same API key, one whose provider call succeeded
\* and was answered from the busy intervals and one whose provider call failed
\* and was answered by the placeholder generator, never return the same
\* result: the caller can tell fallback data from provider data.
C25_FallbackDistinguishable ==
  \A a, b \in Runs :
    (/\ queries[a].pc = "done" /\ queries[a].error = ""
     /\ queries[b].pc = "done" /\ queries[b].error = ""
     /\ queries[a].practitionerId = queries[b].practitionerId
     /\ queries[a].apiKey = queries[b].apiKey
     /\ queries[a].response = "busy"
     /\ queries[b].response \in {"timeout", "status", "nobusy"}
     /\ queries[a].source = "provider"
     /\ queries[b].source = "placeholder")
      => GetAvailabilityResult(queries[a]) # GetAvailabilityResult(queries[b])

Elements(seq) == {seq[k] : k \in DOMAIN seq}

\* C26: what getAvailability returns is exactly the service's slots whose
\* available flag is true, in the service's order: every returned slot is an
\* available slot of the service, every available slot of the service is
\* returned, none twice, and the returned slots follow each other as they do
\* in the service's result (which is in strictly increasing start time).
C26_ReturnsAvailableSlotsInOrder ==
  \A r \in Runs :
    (queries[r].pc = "done" /\ queries[r].error = "")
      => LET slots == queries[r].slots
             result == GetAvailabilityResult(queries[r]).slots
         IN /\ \A k \in DOMAIN slots : k > 1 => slots[k - 1].startTime < slots[k].startTime
            /\ \A j \in DOMAIN result : result[j].available
            /\ Elements(result) = {s \in Elements(slots) : s.available}
            /\ \A j \in DOMAIN result : j > 1 => result[j - 1].startTime < result[j].startTime

\* a provider result and a placeholder result of which some slots, not all,
\* were returned
C26_Witness ==
  \E a, b \in Runs :
    /\ queries[a].source = "provider"
    /\ queries[b].source = "placeholder"
    /\ \A r \in {a, b} :
         /\ queries[r].returned # <<>>
         /\ Len(queries[r].returned) < Len(queries[r].slots)

\* the completed notification the provider sends for a session once it is paid
PaidNotification(s) == [EventOf(s, Completed) EXCEPT !.payment_status = "paid"]

C28_PaymentReferenceWriteOnce ==
  [][\A b \in DOMAIN bookings :
       bookings[b].stripePaymentIntentId \notin {NULL, EMPTY}
         => bookings'[b].stripePaymentIntentId = bookings[b].stripePaymentIntentId]_vars

\* webhook request j carries a verified notification with a payment reference
\* for booking b and has got past the look-up of the booking
ConfirmingWith(j, b) ==
  /\ procs[j].kind = "webhook"
  /\ procs[j].bookingId = b
  /\ procs[j].body.payment_intent # NULL

\* C29: a getBooking that reads a booking while a webhook confirmation of it is
\* under way never returns the row with that notification's payment reference
\* attached and the status still pending; and one that reads it after the
\* confirmation has answered 200 never returns it confirmed with no payment
\* reference.
C29_NoPartialConfirmationSeen ==
  [][\A i \in Requests :
       (/\ procs[i].kind = "idle"
        /\ procs'[i].kind = "getBooking"
        /\ procs'[i].error = "")
         => LET row == procs'[i].row
            IN \A j \in Requests :
                 ConfirmingWith(j, row.id)
                   => /\ procs[j].pc # "done"
                        => ~(/\ row.stripePaymentIntentId = procs[j].body.payment_intent
                             /\ row.status = "pending")
                      /\ (procs[j].pc = "done" /\ procs[j].httpStatus = 200)
                        => ~(/\ row.status = "confirmed"
                             /\ row.stripePaymentIntentId \in {NULL, EMPTY})]_vars

\* the fields of a row fixed at creation
Identity(row) ==
  [id |-> row.id, practitionerId |-> row.practitionerId,
   bookingTime |-> row.bookingTime, clientName |-> row.clientName,
   clientEmail |-> row.clientEmail, clientPhone |-> row.clientPhone,
   amount |-> row.amount, createdAt |-> row.createdAt]

\* table new has the rows of table old, all equal to the old ones except row b
SameButRow(old, new, b) ==
  /\ DOMAIN new = DOMAIN old
  /\ \A c \in DOMAIN old : c # b => new[c] = old[c]

\* applied to the current table, updateBookingStatus changes only status and
\* updatedAt of the row it is given
StatusWriteFrame ==
  \A b \in DOMAIN bookings, status \in {"pending", "confirmed", "cancelled"} :
    \A new \in {UpdateBookingStatus(bookings, b, status)} :
      /\ SameButRow(bookings, new, b)
      /\ [new[b] EXCEPT !.status = bookings[b].status,
                        !.updatedAt = bookings[b].updatedAt] = bookings[b]

\* applied to the current table, updateBookingWithStripeData changes only the
\* two payment references and updatedAt of the row it is given
StripeWriteFrame ==
  \A b \in DOMAIN bookings, s \in SessionIds \cup {OtherSession}, ref \in {EMPTY, OtherSession} :
    \A new \in {UpdateBookingWithStripeData(bookings, b, s, ref)} :
      /\ SameButRow(bookings, new, b)
      /\ [new[b] EXCEPT !.stripeSessionId = bookings[b].stripeSessionId,
                        !.stripePaymentIntentId = bookings[b].stripePaymentIntentId,
                        !.updatedAt = bookings[b].updatedAt] = bookings[b]

\* C30: no step removes a booking or changes the practitionerId, bookingTime,
\* client name, e-mail, phone or amount of an existing booking; applied to any
\* reachable table, updateBookingStatus changes only status and updatedAt of
\* the row it is given and updateBookingWithStripeData only the two payment
\* references and updatedAt.
C30_IdentityFrozen ==
  /\ [](StatusWriteFrame /\ StripeWriteFrame)
  /\ [][/\ DOMAIN bookings \subseteq DOMAIN bookings'
        /\ \A b \in DOMAIN bookings : Identity(bookings'[b]) = Identity(bookings[b])]_vars

\* two bookings exist, and one of them has had its payment reference attached
\* and its status changed since it was created
C30_Witness ==
  \E a, b \in DOMAIN bookings :
    /\ a # b
    /\ bookings[a].stripePaymentIntentId \notin {NULL, EMPTY}
    /\ bookings[a].status # "pending"
    /\ bookings[a].updatedAt > bookings[a].createdAt + 1

\* the ids updateBookingStatus is applied to: every booking and one id that
\* names none
StatusTargets == DOMAIN bookings \cup {AttackerRef}

\* C31: applied to any reachable table, updateBookingStatus(id, s) twice in a
\* row leaves every booking as one application does, but for updatedAt of the
\* booking named; applied to an id that names no booking it changes nothing.
C31_UpdateStatusIdempotent ==
  \A id \in StatusTargets, s \in {"pending", "confirmed", "cancelled"} :
    \A once \in {UpdateBookingStatus(bookings, id, s)} :
      \A twice \in {UpdateBookingStatus(once, id, s)} :
        /\ DOMAIN twice = DOMAIN once
        /\ \A b \in DOMAIN once :
             /\ twice[b].status = once[b].status
             /\ [twice[b] EXCEPT !.updatedAt = once[b].updatedAt] = once[b]
             /\ b # id => twice[b] = bookings[b]
        /\ id \notin DOMAIN bookings => once = bookings /\ twice = bookings
        /\ id \in DOMAIN bookings => once[id].status = s

\* two cancelBooking requests have each applied updateBookingStatus(b,
\* cancelled) to the same booking
C31_Witness ==
  \E i, j \in Requests :
    /\ i # j
    /\ procs[i].kind = "cancelBooking" /\ procs[i].returned = "cancelled"
    /\ procs[j].kind = "cancelBooking" /\ procs[j].returned = "cancelled"
    /\ procs[i].bookingId = procs[j].bookingId
    /\ bookings[procs[i].bookingId].status = "cancelled"

\* the createBooking requests that have opened a checkout session
Openers == {i \in Requests : procs[i].kind = "createBooking" /\ procs[i].sessionId # NULL}

\* C32: every checkout session at the provider names in its metadata a booking
\* that exists, and had been inserted before the session was opened, by the
\* createBooking that opened the session; a createBooking that found a
\* conflict or whose insert failed has opened no session.
C32_SessionAfterBooking ==
  /\ [](/\ \A s \in DOMAIN sessions :
             /\ sessions[s].bookingId \in DOMAIN bookings
             /\ \E i \in Openers : /\ procs[i].sessionId = s
                                   /\ procs[i].bookingId = sessions[s].bookingId
        /\ Cardinality(Openers) = Cardinality(DOMAIN sessions)
        /\ \A i \in Requests :
             (/\ procs[i].kind = "createBooking"
              /\ procs[i].error \in {SlotTaken, StorageError})
               => procs[i].sessionId = NULL /\ procs[i].bookingId = NULL)
  /\ [][\A s \in DOMAIN sessions' \ DOMAIN sessions :
          sessions'[s].bookingId \in DOMAIN bookings]_vars

\* one createBooking has opened a session, one found the slot taken and one
\* had its insert rejected
C32_Witness ==
  /\ DOMAIN sessions # {}
  /\ \E i, j \in Requests :
       /\ procs[i].kind = "createBooking" /\ procs[i].error = SlotTaken
       /\ procs[j].kind = "createBooking" /\ procs[j].error = StorageError

\* the confirmBooking requests whose calendar step has called createCalComBooking
\* for booking b
CalendarCallers(b) ==
  {i \in Requests : /\ procs[i].kind = "confirmBooking"
                    /\ procs[i].bookingId = b
                    /\ procs[i].calendar \in {"created", "failed"}}

\* C33: createCalComBooking is called for booking B only by a confirmBooking
\* that found B and whose updateBookingStatus(B, confirmed) has completed, so
\* that B is persisted and no longer pending when the call is made; a
\* confirmBooking whose lookup failed or whose status update raised makes no
\* calendar call.
C33_CalendarAfterConfirmed ==
  /\ [](/\ \A b \in BookingIds : calAttempts[b] = Cardinality(CalendarCallers(b))
        /\ \A i \in Requests :
             (procs[i].kind = "confirmBooking" /\ procs[i].error # "")
               => /\ procs[i].pc = "done"
                  /\ procs[i].calendar = ""
                  /\ procs[i].error \in {"Booking not found", StorageError}
                  /\ procs[i].error = "Booking not found" => procs[i].bookingId = NULL
        /\ \A i \in Requests :
             At(i, "confirmBooking", "createCalComBooking")
               => /\ procs[i].bookingId \in DOMAIN bookings
                  /\ bookings[procs[i].bookingId].status # "pending"
                  /\ bookings[procs[i].bookingId].updatedAt > 0)
  /\ [][\A b \in BookingIds :
          calAttempts'[b] # calAttempts[b]
            => /\ calAttempts'[b] = calAttempts[b] + 1
               /\ b \in DOMAIN bookings
               /\ bookings[b].status # "pending"
               /\ \E i \in Requests :
                    /\ At(i, "confirmBooking", "createCalComBooking")
                    /\ procs[i].bookingId = b
                    /\ procs[i].error = ""
                    /\ procs'[i].calendar \in {"created", "failed"}]_vars

\* one confirmBooking has called the calendar for a booking and another one
\* ended with the error of its status update
C33_Witness ==
  \E i, j \in Requests :
    /\ procs[i].kind = "confirmBooking" /\ procs[i].calendar \in {"created", "failed"}
    /\ calAttempts[procs[i].bookingId] > 0
    /\ procs[j].kind = "confirmBooking" /\ procs[j].error = StorageError

\* the bookings whose createBooking ended with the failure of the checkout-session
\* creation
Orphans ==
  {procs[i].bookingId :
     i \in {j \in Requests : /\ procs[j].kind = "createBooking"
                             /\ procs[j].error = "Failed to create checkout session"}}

\* a createBooking that arrived when booking b was in the table and asks for
\* b's practitioner and time
AsksForSlotOf(j, b) ==
  /\ procs[j].kind = "createBooking"
  /\ InputSchema(procs[j].input)
  /\ b \in procs[j].idsAtStart
  /\ procs[j].practitionerId = bookings[b].practitionerId
  /\ procs[j].bookingTime = bookings[b].bookingTime

ArrivesUnmatched(i) ==
  /\ procs[i].kind = "idle"
  /\ \/ /\ procs'[i].kind \in {"cancelBooking", "getBooking"}
        /\ procs'[i].arg \notin DOMAIN bookings
     \/ /\ procs'[i].kind \in {"getBookingBySessionId", "confirmBooking"}
        /\ \A b \in DOMAIN bookings : bookings[b].stripeSessionId # procs'[i].sessionId

NamesOf(practitionerId) ==
  IF practitionerId = Uuid_A
    THEN <<<<"CALCOM_EVENT_TYPE_", "a", "b", "c", "d", "e", "f", "0", "1", "_", "1", "_", "a">>,
           <<"CALCOM_EVENT_TYPE_", "a", "b", "c", "d", "e", "f", "0", "1", "1", "a">>,
           <<"CALCOM_EVENT_TYPE_", "a", "b", "c", "d", "e", "f", "0", "1">>,
           <<"CALCOM_EVENT_TYPE_", "D", "E", "F", "A", "U", "L", "T">>>>
  ELSE IF practitionerId = Uuid_B
    THEN <<<<"CALCOM_EVENT_TYPE_", "a", "b", "c", "d", "e", "f", "0", "1", "_", "2", "_", "b">>,
           <<"CALCOM_EVENT_TYPE_", "a", "b", "c", "d", "e", "f", "0", "1", "2", "b">>,
           <<"CALCOM_EVENT_TYPE_", "a", "b", "c", "d", "e", "f", "0", "1">>,
           <<"CALCOM_EVENT_TYPE_", "D", "E", "F", "A", "U", "L", "T">>>>
  ELSE <<<<"CALCOM_EVENT_TYPE_", "1", "2", "3", "4", "5", "6", "7", "8", "_", "3", "_", "c">>,
         <<"CALCOM_EVENT_TYPE_", "1", "2", "3", "4", "5", "6", "7", "8", "3", "c">>,
         <<"CALCOM_EVENT_TYPE_", "1", "2", "3", "4", "5", "6", "7", "8">>,
         <<"CALCOM_EVENT_TYPE_", "D", "E", "F", "A", "U", "L", "T">>>>

\* the entries of NamesOf that are configured in env, by position
ConfiguredOf(practitionerId) ==
  {k \in 1..4 : /\ NamesOf(practitionerId)[k] \in DOMAIN env
                /\ env[NamesOf(practitionerId)[k]] # ""}

\* the value of the first configured entry, "" when there is none
FirstConfigured(practitionerId) ==
  IF ConfiguredOf(practitionerId) = {} THEN ""
  ELSE env[NamesOf(practitionerId)[CHOOSE k \in ConfiguredOf(practitionerId) :
                                     \A j \in ConfiguredOf(practitionerId) : k <= j]]

\* the event types configured under a name derived from the practitioner's id
OwnEventTypes(practitionerId) ==
  {env[NamesOf(practitionerId)[k]] : k \in ConfiguredOf(practitionerId) \ {4}}

IsSet(name) == name \in DOMAIN env /\ env[name] # ""

\* C36: under one configuration every call of getCalComAvailability and of
\* createCalComBooking that gets past the API-key test resolves, for a
\* practitioner, the value of the first configured entry among the id with
\* underscores for hyphens, the id without hyphens, its first 8 characters
\* and the default, so both functions resolve the same id for the same
\* practitioner; of two different practitioners that each have an event type
\* configured under a name of their own, each resolves one of its own and
\* never one that is only the other's; and createCalComBooking returns
\* success = false without a provider call when the account id or the event
\* type is not configured, and calls the provider once when both are.
C36_EventTypeResolution ==
  /\ \A k \in 1..Len(calComLog) :
       \A c \in {calComLog[k]} :
         /\ IsSet(CALCOM_API_KEY) => c.eventTypeId = FirstConfigured(c.practitionerId)
         /\ c.op = "createCalComBooking"
              => /\ (~IsSet(CALCOM_USER_ID) \/ FirstConfigured(c.practitionerId) = "")
                      => c.outcome # "created" /\ c.providerCalls = 0
                 /\ (/\ IsSet(CALCOM_API_KEY)
                     /\ IsSet(CALCOM_USER_ID)
                     /\ FirstConfigured(c.practitionerId) # "")
                      => /\ c.providerCalls = 1
                         /\ c.userId = env[CALCOM_USER_ID]
                         /\ c.eventTypeId # ""
         /\ (c.op = "getCalComAvailability" /\ IsSet(CALCOM_API_KEY))
              => c.providerCalls = 1 /\ c.userId = Getenv(env, CALCOM_USER_ID)
  /\ \A k, l \in 1..Len(calComLog) :
       \A c \in {calComLog[k]}, d \in {calComLog[l]} :
         /\ c.practitionerId = d.practitionerId => c.eventTypeId = d.eventTypeId
         /\ (/\ c.practitionerId # d.practitionerId
             /\ IsSet(CALCOM_API_KEY)
             /\ OwnEventTypes(c.practitionerId) # {}
             /\ OwnEventTypes(d.practitionerId) # {})
              => /\ c.eventTypeId \in OwnEventTypes(c.practitionerId)
                 /\ c.eventTypeId \notin
                      OwnEventTypes(d.practitionerId) \ OwnEventTypes(c.practitionerId)

\* with the account id set, the availability query and a createCalComBooking
\* that reached the provider have resolved, for one practitioner, the event type
\* configured under the first 8 characters of its id, while the default is
\* configured too
C36_Witness ==
  /\ Len(calComLog) = 2
  /\ calComLog[1].op = "getCalComAvailability"
  /\ calComLog[2].op = "createCalComBooking"
  /\ calComLog[1].practitionerId = Uuid_A
  /\ calComLog[2].practitionerId = Uuid_A
  /\ calComLog[2].providerCalls = 1
  /\ ConfiguredOf(Uuid_A) = {3, 4}
  /\ calComLog[1].eventTypeId = calComLog[2].eventTypeId
  /\ calComLog[2].eventTypeId = env[NamesOf(Uuid_A)[3]]

====
